---- MODULE Spec2Model ----
(***************************************************************************)
(* Model of the debrid cache clients (RealDebrid, Torbox, AllDebrid), the  *)
(* parallel aggregator checkAllDebridCaches and the identifier resolver    *)
(* completeIds of lib/id-converter.cjs.                                    *)
(*                                                                         *)
(* JavaScript values are tagged records [t |-> type, v |-> payload], so    *)
(* that undefined, null, booleans, numbers, strings, arrays and objects    *)
(* stay distinguishable and truthiness is computed as JavaScript does.     *)
(***************************************************************************)
EXTENDS Integers, Sequences, FiniteSets, TLC

----------------------------------------------------------------------------
(* JavaScript values *)

JsUndef == [t |-> "undefined", v |-> 0]
JsNull == [t |-> "null", v |-> 0]
JsBool(b) == [t |-> "boolean", v |-> b]
JsNum(n) == [t |-> "number", v |-> n]
JsStr(chars) == [t |-> "string", v |-> chars]
JsArr(elems) == [t |-> "array", v |-> elems]
JsObj(props) == [t |-> "object", v |-> props]

\* ToBoolean: undefined, null, false, 0 and "" are falsy, all else truthy.
Truthy(x) ==
    CASE x.t = "undefined" -> FALSE
      [] x.t = "null" -> FALSE
      [] x.t = "boolean" -> x.v
      [] x.t = "number" -> x.v # 0
      [] x.t = "string" -> Len(x.v) > 0
      [] OTHER -> TRUE

\* a && b
JsAnd(a, b) == IF Truthy(a) THEN b ELSE a

\* a || b
JsOr(a, b) == IF Truthy(a) THEN a ELSE b

\* obj[key] on a parsed JSON object: an absent key reads as undefined.
Lookup(obj, key) == IF key \in DOMAIN obj.v THEN obj.v[key] ELSE JsUndef

\* Reading a property of null or undefined throws a TypeError.
Nullish(x) == x.t \in {"undefined", "null"}

EmptyMap == [k \in {} |-> JsUndef]

\* results[key] = value
Put(map, key, value) == (key :> value) @@ map

Min(a, b) == IF a < b THEN a ELSE b

----------------------------------------------------------------------------
(* Hashes.  A hash string is modelled by its characters <<letter, n>>: one *)
(* letter that has a case, and a number standing for the remaining digits. *)
(* A null element of the hashes array is the one non-string considered.    *)

MaxLen == 2

batchSize == 40

DelayMs == 500

Letters == {"a", "A", "b"}

IsString(h) == h.t = "string"

LowerChar(c) ==
    CASE c = "A" -> "a"
      [] c = "B" -> "b"
      [] OTHER -> c

\* String.prototype.toLowerCase, applied to a string hash.
toLowerCase(h) == JsStr(<<LowerChar(h.v[1]), h.v[2]>>)

LowerLetters == {LowerChar(c) : c \in Letters}

SmallHashes == {JsStr(<<c, 0>>) : c \in Letters} \cup {JsNull}

SeqsUpTo(S, n) == UNION {[1..k -> S] : k \in 0..n}

SmallInputs == SeqsUpTo(SmallHashes, MaxLen)

\* Long inputs that span several Real-Debrid batches: letters alternate, the
\* digits repeat with period p (p = batchSize puts the same hash in every
\* batch, a larger p makes all hashes distinct).
BigInput(n, p) ==
    [i \in 1..n |-> JsStr(<<IF i % 2 = 0 THEN "b" ELSE "A", (i - 1) % p>>)]

BigLens == {batchSize, batchSize + 1, 2 * batchSize, 2 * batchSize + 1,
            2 * batchSize + 5}

BigPeriods == {batchSize, 3 * batchSize}

BigInputs == {BigInput(n, p) : n \in BigLens, p \in BigPeriods}

\* The lowercased keys of the string hashes of a sequence.
LowerKeys(hs) == {toLowerCase(hs[k]) : k \in {j \in 1..Len(hs) : IsString(hs[j])}}

AllStrings(hs) == \A k \in 1..Len(hs) : IsString(hs[k])

----------------------------------------------------------------------------
VARIABLES hashes, services, rd, tb, ad, now, agg, ids, op, config

vars == <<hashes, services, rd, tb, ad, now, agg, ids, op, config>>

Outcome(kind, body) == [kind |-> kind, body |-> body]

\* An entry of a client's history: a request put on the wire with the hashes
\* it carries, the settling of the pending request with its outcome, or the
\* end of a rate-limit pause; `at` is the time in milliseconds.
Event(type, batch, out, at) ==
    [type |-> type, batch |-> batch, out |-> out, at |-> at]

NoOutcome == Outcome("none", JsUndef)

\* A client with no checkCache call in progress.
IdleClient == [pc |-> "idle", i |-> 0, results |-> EmptyMap, log |-> <<>>]

\* What can come back for one request, given the JSON bodies a 2xx response
\* may carry: fetch rejects (fetch_throw); a non-2xx status with a body that
\* parses as JSON (http_error) or does not (http_error_nojson); a 2xx status
\* with a body that does not parse (json_throw) or with a JSON body (ok).
Outcomes(bodies) ==
    {Outcome("fetch_throw", JsUndef), Outcome("http_error", JsUndef),
     Outcome("http_error_nojson", JsUndef), Outcome("json_throw", JsUndef)}
        \cup {Outcome("ok", b) : b \in bodies}

----------------------------------------------------------------------------
(* RealDebrid.checkCache *)

RDFailEntry ==
    [cached |-> JsBool(FALSE), payload |-> JsArr(<<>>),
     downloadLink |-> JsNull, service |-> "Real-Debrid"]

\* A test by presence of the entry alone, as Torbox has it.
RDIsCachedAnyEntry(cacheInfo) == JsBool(Truthy(cacheInfo))

\* const isCached = cacheInfo && cacheInfo.rd && cacheInfo.rd.length > 0
RDIsCached(cacheInfo) ==
    IF ~Truthy(cacheInfo) THEN cacheInfo
    ELSE JsAnd(cacheInfo.v.rd, JsBool(Len(cacheInfo.v.rd.v) > 0))

\* variants: cacheInfo?.rd || []
RDVariants(cacheInfo) ==
    JsOr(IF Nullish(cacheInfo) THEN JsUndef ELSE cacheInfo.v.rd, JsArr(<<>>))

RDEntry(cacheInfo) ==
    [cached |-> RDIsCached(cacheInfo), payload |-> RDVariants(cacheInfo),
     downloadLink |-> JsNull, service |-> "Real-Debrid"]

\* A slice that runs one element into the next batch.
RDBatchOverlapping(hs, i) == SubSeq(hs, i + 1, Min(i + batchSize + 1, Len(hs)))

\* hashes.slice(i, i + batchSize)
RDBatch(hs, i) == SubSeq(hs, i + 1, Min(i + batchSize, Len(hs)))

\* batch.forEach of the response.ok branch, from element k on: stops with
\* threw = TRUE at the first element whose toLowerCase or data[...] throws.
RECURSIVE RDWriteOk(_, _, _, _)
RDWriteOk(batch, k, data, res) ==
    IF k > Len(batch) THEN [res |-> res, threw |-> FALSE]
    ELSE IF ~IsString(batch[k]) \/ Nullish(data)
        THEN [res |-> res, threw |-> TRUE]
    ELSE RDWriteOk(batch, k + 1, data,
            Put(res, toLowerCase(batch[k]),
                RDEntry(Lookup(data, toLowerCase(batch[k])))))

\* batch.forEach of the failure branches: every hash not cached.
RECURSIVE RDWriteFail(_, _, _)
RDWriteFail(batch, k, res) ==
    IF k > Len(batch) THEN [res |-> res, threw |-> FALSE]
    ELSE IF ~IsString(batch[k]) THEN [res |-> res, threw |-> TRUE]
    ELSE RDWriteFail(batch, k + 1, Put(res, toLowerCase(batch[k]), RDFailEntry))

\* fetch(url) for the batch starting at i: the request is on the wire.
RDIssue(st, hs, i, t) ==
    [st EXCEPT !.pc = "fetch", !.i = i,
               !.log = Append(@, Event("request", RDBatch(hs, i), NoOutcome, t))]

\* The for loop's test at index i: the next request, or return results.
RDLoop(st, hs, i, t) ==
    IF i < Len(hs) THEN RDIssue(st, hs, i, t)
    ELSE [st EXCEPT !.pc = "resolved", !.i = i]

\* checkCache(hashes) up to its first await.
RDCall(hs, t) ==
    IF Len(hs) = 0 THEN [IdleClient EXCEPT !.pc = "resolved"]
    ELSE RDLoop(IdleClient, hs, 0, t)

\* A catch block that marks the batch not cached and gives up on the rest.
RDCatchAbort(st, hs, t) ==
    LET w == RDWriteFail(RDBatch(hs, st.i), 1, st.results)
    IN  [st EXCEPT !.pc = IF w.threw THEN "rejected" ELSE "resolved",
                   !.results = w.res]

\* A catch block that only logs and leaves the batch out of the results.
RDCatchSilent(st, hs, t) == RDLoop(st, hs, st.i + batchSize, t)

\* The catch block: the batch is marked not cached and the loop goes on; a
\* throw inside the catch block rejects the promise checkCache returned.
RDCatch(st, hs, t) ==
    LET w == RDWriteFail(RDBatch(hs, st.i), 1, st.results)
    IN  IF w.threw THEN [st EXCEPT !.pc = "rejected", !.results = w.res]
        ELSE RDLoop([st EXCEPT !.results = w.res], hs, st.i + batchSize, t)

\* The end of the try block: the rate-limit pause before the next batch.
RDAfterTry(st, hs, t) ==
    IF st.i + batchSize < Len(hs) THEN [st EXCEPT !.pc = "delay"]
    ELSE RDLoop(st, hs, st.i + batchSize, t)

\* Resumption of checkCache when the batch request settles: response.json()
\* is awaited before response.ok is looked at.
RDHandle(st0, hs, out, t) ==
    LET st == [st0 EXCEPT !.log = Append(@, Event("response", <<>>, out, t))]
        batch == RDBatch(hs, st.i)
    IN  IF out.kind \in {"fetch_throw", "json_throw", "http_error_nojson"}
            THEN RDCatch(st, hs, t)
        ELSE LET w == IF out.kind = "ok"
                      THEN RDWriteOk(batch, 1, out.body, st.results)
                      ELSE RDWriteFail(batch, 1, st.results)
                 st1 == [st EXCEPT !.results = w.res]
             IN  IF w.threw THEN RDCatch(st1, hs, t) ELSE RDAfterTry(st1, hs, t)

\* Resumption after setTimeout(resolve, 500).
RDResume(st, hs, t) ==
    RDLoop([st EXCEPT !.log = Append(@, Event("delay", <<>>, NoOutcome, t))],
           hs, st.i + batchSize, t)

\* The cache info a response may hold for one hash.
RDInfos ==
    {JsNull, JsObj([rd |-> JsUndef]), JsObj([rd |-> JsArr(<<>>)]),
     JsObj([rd |-> JsArr(<<"v1">>)])}

\* The answers considered for the hashes of one letter: any cache info or no
\* entry for a short batch, a cached entry or no entry for a long one.
RDAnswers(batch) ==
    IF Len(batch) > MaxLen THEN {JsUndef, JsObj([rd |-> JsArr(<<"v1">>)])}
    ELSE RDInfos \cup {JsUndef}

\* The JSON bodies considered for a batch: null, or an object that holds,
\* for the requested keys of each letter, nothing or one cache info.
RDBodies(batch) ==
    {JsNull} \cup
    {JsObj([k \in {x \in LowerKeys(batch) : f[x.v[1]] # JsUndef} |-> f[k.v[1]]]) :
        f \in [LowerLetters -> RDAnswers(batch)]}

RDInputs == SmallInputs \cup BigInputs

----------------------------------------------------------------------------
(* Torbox.checkCache *)

\* x.name for a value that is neither null nor undefined: a property an
\* object does not hold, or any property of a primitive, reads as undefined.
Prop(x, name) ==
    IF x.t = "object" /\ name \in DOMAIN x.v THEN x.v[name] ELSE JsUndef

TBFailEntry ==
    [cached |-> JsBool(FALSE), payload |-> JsArr(<<>>),
     downloadLink |-> JsNull, service |-> "Torbox"]

\* const isCached = !!cacheInfo
TBIsCached(cacheInfo) == JsBool(Truthy(cacheInfo))

\* files: cacheInfo?.files || []
TBFiles(cacheInfo) ==
    JsOr(IF Nullish(cacheInfo) THEN JsUndef ELSE Prop(cacheInfo, "files"),
         JsArr(<<>>))

TBEntry(cacheInfo) ==
    [cached |-> TBIsCached(cacheInfo), payload |-> TBFiles(cacheInfo),
     downloadLink |-> JsNull, service |-> "Torbox"]

\* hashes.forEach of the success branch, from element k on.
RECURSIVE TBWriteOk(_, _, _, _)
TBWriteOk(hs, k, map, res) ==
    IF k > Len(hs) THEN [res |-> res, threw |-> FALSE]
    ELSE IF ~IsString(hs[k]) THEN [res |-> res, threw |-> TRUE]
    ELSE TBWriteOk(hs, k + 1, map,
            Put(res, toLowerCase(hs[k]),
                TBEntry(Lookup(map, toLowerCase(hs[k])))))

\* hashes.forEach of the catch block.
RECURSIVE TBWriteFail(_, _, _)
TBWriteFail(hs, k, res) ==
    IF k > Len(hs) THEN [res |-> res, threw |-> FALSE]
    ELSE IF ~IsString(hs[k]) THEN [res |-> res, threw |-> TRUE]
    ELSE TBWriteFail(hs, k + 1, Put(res, toLowerCase(hs[k]), TBFailEntry))

\* checkCache(hashes) up to its first await: one POST carrying all hashes.
TBCall(hs, t) ==
    IF Len(hs) = 0 THEN [IdleClient EXCEPT !.pc = "resolved"]
    ELSE [IdleClient EXCEPT !.pc = "fetch",
                            !.log = <<Event("request", hs, NoOutcome, t)>>]

\* A catch block that sends the request once more before it gives up.
TBCatchRetrying(st, hs) ==
    IF Len(st.log) = 2
    THEN [st EXCEPT !.pc = "fetch",
                    !.log = Append(@, Event("request", hs, NoOutcome,
                                            st.log[1].at))]
    ELSE LET w == TBWriteFail(hs, 1, st.results)
         IN  [st EXCEPT !.pc = IF w.threw THEN "rejected" ELSE "resolved",
                        !.results = w.res]

\* The catch block; a throw inside it rejects the promise.
TBCatch(st, hs) ==
    LET w == TBWriteFail(hs, 1, st.results)
    IN  [st EXCEPT !.pc = IF w.threw THEN "rejected" ELSE "resolved",
                   !.results = w.res]

\* if (data.success && data.data)
TBUsable(body) == Truthy(JsAnd(Prop(body, "success"), Prop(body, "data")))

\* Resumption of checkCache when the request settles.
TBHandle(st0, hs, out, t) ==
    LET st == [st0 EXCEPT !.log = Append(@, Event("response", <<>>, out, t))]
    IN  IF out.kind # "ok" \/ Nullish(out.body) THEN TBCatch(st, hs)
        ELSE IF TBUsable(out.body)
        THEN LET w == TBWriteOk(hs, 1, Prop(out.body, "data"), st.results)
                 st1 == [st EXCEPT !.results = w.res]
             IN  IF w.threw THEN TBCatch(st1, hs)
                 ELSE [st1 EXCEPT !.pc = "resolved"]
        ELSE [st EXCEPT !.pc = "resolved"]

\* The values a response may store under a hash key.
TBValues ==
    {JsNull, JsBool(FALSE), JsNum(0), JsStr(<<>>), JsObj([files |-> JsUndef]),
     JsObj([files |-> JsArr(<<"f1">>)])}

\* Objects keyed by some of the given keys.
ObjectsOver(keys, values) ==
    {JsObj(m) : m \in UNION {[S -> values] : S \in SUBSET keys}}

\* The JSON bodies considered: null, or { success, data } with the flag set,
\* false or missing and data missing, null or an object keyed by hashes.
TBBodies(hs) ==
    {JsNull} \cup
    {JsObj([success |-> s, data |-> d]) :
        s \in {JsBool(TRUE), JsBool(FALSE), JsUndef},
        d \in {JsUndef, JsNull} \cup ObjectsOver(LowerKeys(hs), TBValues)}

----------------------------------------------------------------------------
(* AllDebrid.checkCache *)

ADFailEntry ==
    [cached |-> JsBool(FALSE), payload |-> JsArr(<<>>),
     downloadLink |-> JsNull, service |-> "AllDebrid"]

\* const isCached = magnet.instant === true
ADIsCached(magnet) == JsBool(Prop(magnet, "instant") = JsBool(TRUE))

ADEntry(magnet) ==
    [cached |-> ADIsCached(magnet),
     payload |-> JsOr(Prop(magnet, "files"), JsArr(<<>>)),
     downloadLink |-> JsNull, service |-> "AllDebrid"]

\* Attribution by the hash the response element itself names.
ADHashByValue(hs, magnets, k) == Prop(magnets[k], "hash")

\* The hash a response element is attributed to: hashes[index].
ADHashFor(hs, magnets, k) == hs[k]

\* data.data.magnets.forEach((magnet, index) => ...), from element k on:
\* hashes[index].toLowerCase() throws past the end of hashes and on a
\* non-string, magnet.instant throws on a null element.
RECURSIVE ADWriteOk(_, _, _, _)
ADWriteOk(hs, magnets, k, res) ==
    IF k > Len(magnets) THEN [res |-> res, threw |-> FALSE]
    ELSE IF k > Len(hs) \/ ~IsString(hs[k]) \/ Nullish(magnets[k])
        THEN [res |-> res, threw |-> TRUE]
    ELSE ADWriteOk(hs, magnets, k + 1,
            Put(res, toLowerCase(ADHashFor(hs, magnets, k)),
                ADEntry(magnets[k])))

\* hashes.forEach of the catch block.
RECURSIVE ADWriteFail(_, _, _)
ADWriteFail(hs, k, res) ==
    IF k > Len(hs) THEN [res |-> res, threw |-> FALSE]
    ELSE IF ~IsString(hs[k]) THEN [res |-> res, threw |-> TRUE]
    ELSE ADWriteFail(hs, k + 1, Put(res, toLowerCase(hs[k]), ADFailEntry))

\* checkCache(hashes) up to its first await: one POST with the magnets of
\* all hashes joined in input order.
ADCall(hs, t) ==
    IF Len(hs) = 0 THEN [IdleClient EXCEPT !.pc = "resolved"]
    ELSE [IdleClient EXCEPT !.pc = "fetch",
                            !.log = <<Event("request", hs, NoOutcome, t)>>]

\* A catch block that keeps the entries written before the throw.
ADCatchKeeping(st, hs) == [st EXCEPT !.pc = "resolved"]

\* The catch block; a throw inside it rejects the promise.
ADCatch(st, hs) ==
    LET w == ADWriteFail(hs, 1, st.results)
    IN  [st EXCEPT !.pc = IF w.threw THEN "rejected" ELSE "resolved",
                   !.results = w.res]

\* if (data.status === 'success' && data.data && data.data.magnets)
ADUsable(body) ==
    /\ Prop(body, "status") = JsStr(<<"success">>)
    /\ Truthy(Prop(body, "data"))
    /\ Truthy(Prop(Prop(body, "data"), "magnets"))

\* Resumption of checkCache when the request settles.
ADHandle(st0, hs, out, t) ==
    LET st == [st0 EXCEPT !.log = Append(@, Event("response", <<>>, out, t))]
    IN  IF out.kind # "ok" \/ Nullish(out.body) THEN ADCatch(st, hs)
        ELSE IF ADUsable(out.body)
        THEN LET w == ADWriteOk(hs, Prop(Prop(out.body, "data"), "magnets").v,
                                1, st.results)
                 st1 == [st EXCEPT !.results = w.res]
             IN  IF w.threw THEN ADCatch(st1, hs)
                 ELSE [st1 EXCEPT !.pc = "resolved"]
        ELSE [st EXCEPT !.pc = "resolved"]

\* The hash a response element names in its own hash field.
ADNamedHashes == {JsStr(<<c, 0>>) : c \in LowerLetters}

\* The elements of the magnets array: null, or { instant, files, hash }.
ADMagnets ==
    {JsNull,
     JsObj([instant |-> JsBool(TRUE), files |-> JsUndef,
            hash |-> JsStr(<<"a", 0>>)]),
     JsObj([instant |-> JsNum(1), files |-> JsUndef,
            hash |-> JsStr(<<"a", 0>>)]),
     JsObj([instant |-> JsUndef, files |-> JsUndef,
            hash |-> JsStr(<<"b", 0>>)])} \cup
    {JsObj([instant |-> x, files |-> JsArr(<<"f1">>), hash |-> h]) :
        x \in {JsBool(TRUE), JsBool(FALSE)}, h \in ADNamedHashes}

\* The JSON bodies considered: null, or { status, data } with data missing,
\* without magnets, or with a magnets array of up to one element more than
\* there are hashes.
ADBodies(hs) ==
    {JsNull} \cup
    {JsObj([status |-> JsStr(<<s>>), data |-> d]) :
        s \in {"success", "error"},
        d \in {JsUndef, JsObj([magnets |-> JsUndef])} \cup
              {JsObj([magnets |-> JsArr(m)]) :
                  m \in SeqsUpTo(ADMagnets, Len(hs) + 1)}}

----------------------------------------------------------------------------
(* checkAllDebridCaches *)

Providers == {"realdebrid", "torbox", "alldebrid"}

\* The services objects considered: each use flag set or not, each client an
\* instance (TRUE) or null (FALSE).
ServicesSet ==
    [useRealDebrid : BOOLEAN, realdebrid : BOOLEAN,
     useTorbox : BOOLEAN, torbox : BOOLEAN,
     useAllDebrid : BOOLEAN, alldebrid : BOOLEAN]

UseFlag(svc, p) ==
    CASE p = "realdebrid" -> svc.useRealDebrid
      [] p = "torbox" -> svc.useTorbox
      [] p = "alldebrid" -> svc.useAllDebrid

\* A check started on the client alone, whatever the use flag says.
AggEnabledByClient(svc, p) == svc[p]

\* if (useRealDebrid && realdebrid), and the same for the other two.
AggEnabled(svc, p) == UseFlag(svc, p) /\ svc[p]

\* const cacheResults = { realdebrid: {}, torbox: {}, alldebrid: {} }
AggIdle ==
    [pc |-> "idle",
     cacheResults |-> [p \in Providers |-> EmptyMap],
     checks |-> {},
     handled |-> [p \in Providers |-> "none"]]

\* A rejection with no .catch attached: the check promise rejects too.
AggOnRejectUncaught(a, p) == [a EXCEPT !.handled[p] = "uncaught"]

\* .catch(err => console.error(...)): the check promise is fulfilled.
AggOnReject(a, p) == [a EXCEPT !.handled[p] = "caught"]

\* .then(result => { cacheResults.<provider> = result; })
AggOnResolve(a, p, result) ==
    [a EXCEPT !.cacheResults[p] = result, !.handled[p] = "then"]

\* A start that takes up the first enabled provider alone.
AggStartFirstOnly(svc) ==
    [AggIdle EXCEPT !.pc = "waiting",
                    !.checks = IF AggEnabled(svc, "realdebrid")
                                   THEN {"realdebrid"}
                               ELSE IF AggEnabled(svc, "torbox") THEN {"torbox"}
                               ELSE {p \in Providers : AggEnabled(svc, p)}]

\* The synchronous part of checkAllDebridCaches: the checks array.
AggStart(svc) ==
    [AggIdle EXCEPT !.pc = "waiting",
                    !.checks = {p \in Providers : AggEnabled(svc, p)}]

\* A join that is over with the first check promise that settles.
AggJoinableOnFirst(a) ==
    \/ a.checks = {}
    \/ \E p \in a.checks : a.handled[p] # "none"

\* await Promise.all(checks): rejected once a check promise is rejected,
\* fulfilled once every check promise is fulfilled.
AggJoinable(a) ==
    \/ \E p \in a.checks : a.handled[p] = "uncaught"
    \/ \A p \in a.checks : a.handled[p] \in {"then", "caught"}

AggJoined(a) ==
    [a EXCEPT !.pc = IF \E p \in a.checks : a.handled[p] = "uncaught"
                     THEN "rejected" ELSE "returned"]

\* The inputs considered for a joint call: the short ones, and one that
\* takes Real-Debrid two batches.
AggInputs == SmallInputs \cup {BigInput(batchSize + 1, 3 * batchSize)}

\* The bodies considered while the three clients run side by side.
RDBodiesNarrow(batch) ==
    {JsObj([k \in LowerKeys(batch) |-> JsObj([rd |-> JsArr(<<"v1">>)])]),
     JsObj(EmptyMap)}

TBBodiesNarrow(hs) ==
    {JsObj([success |-> JsBool(TRUE),
            data |-> JsObj([k \in LowerKeys(hs) |->
                                JsObj([files |-> JsArr(<<"f1">>)])])]),
     JsObj([success |-> JsBool(FALSE), data |-> JsUndef])}

ADCachedMagnet ==
    JsObj([instant |-> JsBool(TRUE), files |-> JsArr(<<"f1">>),
           hash |-> JsStr(<<"a", 0>>)])

ADBodiesNarrow(hs) ==
    {JsObj([status |-> JsStr(<<"success">>),
            data |-> JsObj([magnets |-> JsArr([k \in 1..n |-> ADCachedMagnet])])]) :
        n \in {1, Len(hs)}}
    \cup {JsObj([status |-> JsStr(<<"error">>), data |-> JsUndef])}

----------------------------------------------------------------------------
(* lib/id-converter.cjs: imdbToTmdb, tmdbToImdb, completeIds *)

MaxMatches == 2

\* A test that lets every string through.
StartsWithAnything(x) == Len(x.v) >= 0

\* imdbId.startsWith('tt')
StartsWithTT(x) == Len(x.v) >= 2 /\ x.v[1] = "t" /\ x.v[2] = "t"

\* A lookup in progress or finished: the arguments of completeIds, the
\* requests sent to the lookup service and the value returned.
IdsIdle ==
    [pc |-> "idle", imdbId |-> JsUndef, tmdbId |-> JsUndef, type |-> JsUndef,
     calls |-> <<>>, out |-> NoOutcome,
     result |-> [imdbId |-> JsUndef, tmdbId |-> JsUndef]]

IdsArgs(imdbId, tmdbId, type) ==
    [IdsIdle EXCEPT !.imdbId = imdbId, !.tmdbId = tmdbId, !.type = type]

IdsReturn(st, imdbId, tmdbId) ==
    [st EXCEPT !.pc = "returned",
               !.result = [imdbId |-> imdbId, tmdbId |-> tmdbId]]

\* fetch(`${TMDB_BASE_URL}/find/${imdbId}?...&external_source=imdb_id`)
IdsForwardRequest(imdbId) ==
    [kind |-> "find", id |-> imdbId, mediaType |-> "none"]

\* A token that is 'movie' for the kind 'movie' alone.
MediaTypeTvUnlessMovie(type) ==
    IF type = JsStr(<<"movie">>) THEN "movie" ELSE "tv"

\* const mediaType = type === 'series' ? 'tv' : 'movie'
MediaType(type) == IF type = JsStr(<<"series">>) THEN "tv" ELSE "movie"

\* fetch(`${TMDB_BASE_URL}/${mediaType}/${tmdbId}?...`)
IdsReverseRequest(tmdbId, type) ==
    [kind |-> "details", id |-> tmdbId, mediaType |-> MediaType(type)]

\* data.<list> && data.<list>.length > 0
NonEmptyList(x) == Truthy(x) /\ Len(x.v) > 0

\* An episode match resolved to the episode's own id.
EpisodeOwnId(episode) == Prop(episode, "id")

\* data.tv_episode_results[0].show_id
EpisodeShowId(episode) == Prop(episode, "show_id")

\* What imdbToTmdb takes from the parsed body of a 2xx response: its tmdbId.
ForwardTmdbId(data) ==
    IF NonEmptyList(Prop(data, "movie_results"))
        THEN Prop(Prop(data, "movie_results").v[1], "id")
    ELSE IF NonEmptyList(Prop(data, "tv_results"))
        THEN Prop(Prop(data, "tv_results").v[1], "id")
    ELSE IF NonEmptyList(Prop(data, "tv_episode_results"))
        THEN EpisodeShowId(Prop(data, "tv_episode_results").v[1])
    ELSE JsNull

\* The tmdbId imdbToTmdb resolves to once its request has settled: null on
\* a thrown error (fetch, response.json(), a null body) and on a non-2xx
\* status.
ImdbToTmdbResult(out) ==
    IF out.kind # "ok" \/ Nullish(out.body) THEN JsNull
    ELSE ForwardTmdbId(out.body)

\* The imdbId tmdbToImdb resolves to once its request has settled.
TmdbToImdbResult(out) ==
    IF out.kind # "ok" \/ Nullish(out.body) THEN JsNull
    ELSE IF Truthy(JsAnd(Prop(out.body, "external_ids"),
                         Prop(Prop(out.body, "external_ids"), "imdb_id")))
        THEN Prop(Prop(out.body, "external_ids"), "imdb_id")
    ELSE JsNull

\* A completeIds that looks the pair up whenever an IMDb id is given.
CompleteIdsAlwaysLookup(imdbId, tmdbId, type) ==
    LET st == IdsArgs(imdbId, tmdbId, type)
    IN  IF Truthy(imdbId) /\ IsString(imdbId) /\ StartsWithTT(imdbId)
        THEN [st EXCEPT !.pc = "forward",
                        !.calls = <<IdsForwardRequest(imdbId)>>]
        ELSE IdsReturn(st, imdbId, tmdbId)

\* completeIds(imdbId, tmdbId, type) up to its first await; imdbToTmdb calls
\* imdbId.startsWith outside its try block, which throws on a truthy value
\* that is not a string.
CompleteIds(imdbId, tmdbId, type) ==
    LET st == IdsArgs(imdbId, tmdbId, type)
    IN  IF Truthy(imdbId) /\ Truthy(tmdbId)
            THEN IdsReturn(st, imdbId, tmdbId)
        ELSE IF Truthy(imdbId)
            THEN IF ~IsString(imdbId) THEN [st EXCEPT !.pc = "rejected"]
                 ELSE IF ~StartsWithTT(imdbId)
                    THEN IdsReturn(st, imdbId, JsNull)
                 ELSE [st EXCEPT !.pc = "forward",
                                 !.calls = <<IdsForwardRequest(imdbId)>>]
        ELSE IF Truthy(tmdbId)
            THEN IF ~Truthy(type) THEN IdsReturn(st, JsNull, tmdbId)
                 ELSE [st EXCEPT !.pc = "reverse",
                                 !.calls = <<IdsReverseRequest(tmdbId, type)>>]
        ELSE IdsReturn(st, JsNull, JsNull)

\* Resumption of completeIds after imdbToTmdb's request has settled.
IdsForwardDone(st, out) ==
    IdsReturn([st EXCEPT !.out = out], st.imdbId, ImdbToTmdbResult(out))

\* A reverse lookup without the try/catch around fetch.
IdsReverseDoneUncaught(st, out) ==
    IF out.kind = "fetch_throw" THEN [st EXCEPT !.pc = "rejected", !.out = out]
    ELSE IdsReturn([st EXCEPT !.out = out], TmdbToImdbResult(out), st.tmdbId)

\* Resumption of completeIds after tmdbToImdb's request has settled.
IdsReverseDone(st, out) ==
    IdsReturn([st EXCEPT !.out = out], TmdbToImdbResult(out), st.tmdbId)

\* The arguments considered.
ImdbIds ==
    {JsNull, JsUndef, JsStr(<<>>), JsStr(<<"t", "t", "0111161">>),
     JsStr(<<"n", "m", "0000151">>), JsNum(111161)}

TmdbIds == {JsNull, JsUndef, JsNum(0), JsNum(278), JsNum(1396)}

Types == {JsUndef, JsStr(<<"movie">>), JsStr(<<"series">>), JsStr(<<"anime">>)}

Match(id, showId) == JsObj([id |-> id, show_id |-> showId])

\* A result list of the find endpoint: missing, or up to MaxMatches matches.
MatchLists(matches) ==
    {JsUndef} \cup {JsArr(m) : m \in SeqsUpTo(matches, MaxMatches)}

ForwardBodies ==
    {JsNull} \cup
    {JsObj([movie_results |-> m, tv_results |-> t, tv_episode_results |-> e]) :
        m \in MatchLists({Match(JsNum(278), JsUndef), Match(JsNum(550), JsUndef)}),
        t \in MatchLists({Match(JsNum(1396), JsUndef), Match(JsNum(1399), JsUndef)}),
        e \in MatchLists({Match(JsNum(62085), JsNum(1396)),
                          Match(JsNum(62086), JsNum(1399))})}

ReverseBodies ==
    {JsNull, JsObj([id |-> JsNum(1396)])} \cup
    {JsObj([external_ids |-> x]) :
        x \in {JsNull} \cup
              {JsObj([imdb_id |-> i]) :
                  i \in {JsNull, JsStr(<<>>), JsStr(<<"t", "t", "0903747">>)}}}

----------------------------------------------------------------------------
(* The operations that change the account: addMagnet, selectFiles,        *)
(* unrestrictLink and deleteTorrent                                        *)

\* The operations of the three clients, as <<client, method>>.
MutationOps ==
    {<<"realdebrid", "addMagnet">>, <<"realdebrid", "deleteTorrent">>,
     <<"realdebrid", "selectFiles">>, <<"realdebrid", "unrestrictLink">>,
     <<"torbox", "addMagnet">>,
     <<"alldebrid", "addMagnet">>, <<"alldebrid", "unrestrictLink">>}

\* A response body that is not JSON: response.json() rejects on it.
Unparseable == [t |-> "unparseable", v |-> 0]

\* What the remote does with the request: an answer with a status and a
\* body, or none (fetch rejects).
OpAnswer(status, body) == [kind |-> "answer", status |-> status, body |-> body]

OpNoAnswer == [kind |-> "fetch_throw", status |-> 0, body |-> JsUndef]

NoError == [type |-> "none", status |-> 0, detail |-> JsUndef]

\* No operation in progress.
OpIdle ==
    [pc |-> "idle", client |-> "none", method |-> "none",
     answer |-> OpNoAnswer, value |-> JsUndef, error |-> NoError]

\* The operation up to await fetch(...).
OpCall(client, method) ==
    [OpIdle EXCEPT !.pc = "fetch", !.client = client, !.method = method]

OpReturn(st, value) == [st EXCEPT !.pc = "returned", !.value = value]

OpThrow(st, type, status, detail) ==
    [st EXCEPT !.pc = "thrown",
               !.error = [type |-> type, status |-> status, detail |-> detail]]

\* response.ok
ResponseOk(status) == status \in 200..299

\* The field of the error body that goes into the message: errorData.error
\* for Real-Debrid and Torbox, errorData.detail for AllDebrid.
DetailField(client) == IF client = "alldebrid" THEN "detail" ELSE "error"

\* const errorData = await response.json().catch(() => ({}));
\* throw new Error(`... ${response.status} - ${errorData.error || 'Unknown'}`)
\* where reading a field of a null body throws a TypeError instead.
OpThrowHttpError(st, ans) ==
    LET errorData == IF ans.body = Unparseable THEN JsObj(EmptyMap)
                     ELSE ans.body
    IN  IF Nullish(errorData) THEN OpThrow(st, "TypeError", 0, JsUndef)
        ELSE OpThrow(st, "Error", ans.status,
                     JsOr(Prop(errorData, DetailField(st.client)),
                          JsStr(<<"Unknown">>)))

\* return await response.json()
OpReturnJson(st, ans) ==
    IF ans.body = Unparseable THEN OpThrow(st, "SyntaxError", 0, JsUndef)
    ELSE OpReturn(st, ans.body)

\* A deleteTorrent that throws on a status other than 204, as selectFiles
\* does.
DeleteTorrentThrowing(st, ans) ==
    IF ans.status # 204 THEN OpThrowHttpError(st, ans)
    ELSE OpReturn(st, JsUndef)

\* deleteTorrent after its request was answered: a status other than 204 is
\* written to the console and the method returns.
DeleteTorrentDone(st, ans) == OpReturn(st, JsUndef)

\* selectFiles after its request was answered.
SelectFilesDone(st, ans) ==
    IF ans.status # 204 THEN OpThrowHttpError(st, ans)
    ELSE OpReturn(st, JsUndef)

\* addMagnet and unrestrictLink after their request was answered.
AddOrUnrestrictDone(st, ans) ==
    IF ~ResponseOk(ans.status) THEN OpThrowHttpError(st, ans)
    ELSE OpReturnJson(st, ans)

\* Resumption of the operation when its request settles; none of the
\* methods catches a rejection of fetch.
OpHandle(st0, ans) ==
    LET st == [st0 EXCEPT !.answer = ans]
    IN  IF ans.kind = "fetch_throw" THEN OpThrow(st, "FetchError", 0, JsUndef)
        ELSE CASE st.method = "deleteTorrent" -> DeleteTorrentDone(st, ans)
               [] st.method = "selectFiles" -> SelectFilesDone(st, ans)
               [] OTHER -> AddOrUnrestrictDone(st, ans)

\* The statuses and bodies considered.
Statuses == {200, 201, 204, 400, 401, 404, 500, 503}

OpBodies ==
    {Unparseable, JsNull, JsObj(EmptyMap), JsObj([id |-> JsStr(<<"T1">>)]),
     JsObj([error |-> JsStr(<<"bad_token">>)]),
     JsObj([detail |-> JsStr(<<"not found">>)])}

OpAnswers ==
    {OpNoAnswer} \cup {OpAnswer(s, b) : s \in Statuses, b \in OpBodies}

----------------------------------------------------------------------------
(* createDebridServices *)

MaxKeyLen == 6

\* An API key of n characters.
Key(n) == JsStr([i \in 1..n |-> "k"])

\* The keys considered: missing, null, empty, and of 4 to MaxKeyLen
\* characters.
Keys == {JsUndef, JsNull, Key(0)} \cup {Key(n) : n \in 4..MaxKeyLen}

Flags == {JsUndef, JsBool(FALSE), JsBool(TRUE)}

Configs ==
    [use_rd : Flags, rd_key : Keys,
     use_torbox : Flags, torbox_key : Keys,
     use_alldebrid : Flags, alldebrid_key : Keys]

\* createDebridServices has not been called.
NoConfig ==
    [use_rd |-> JsUndef, rd_key |-> JsUndef,
     use_torbox |-> JsUndef, torbox_key |-> JsUndef,
     use_alldebrid |-> JsUndef, alldebrid_key |-> JsUndef,
     called |-> FALSE]

\* A test that lets a key of five characters through.
KeyEnablesFromFive(use, key) ==
    Truthy(use) /\ Truthy(key) /\ Len(key.v) >= 5

\* config.use_rd && config.rd_key && config.rd_key.length > 5
KeyEnables(use, key) ==
    Truthy(use) /\ Truthy(key) /\ Len(key.v) > 5

\* The object createDebridServices returns: every client null and every use
\* flag false, but for each provider that passes the test.
CreateDebridServices(cfg) ==
    LET none == [realdebrid |-> FALSE, torbox |-> FALSE, alldebrid |-> FALSE,
                 useRealDebrid |-> FALSE, useTorbox |-> FALSE,
                 useAllDebrid |-> FALSE]
        s1 == IF KeyEnables(cfg.use_rd, cfg.rd_key)
              THEN [none EXCEPT !.realdebrid = TRUE, !.useRealDebrid = TRUE]
              ELSE none
        s2 == IF KeyEnables(cfg.use_torbox, cfg.torbox_key)
              THEN [s1 EXCEPT !.torbox = TRUE, !.useTorbox = TRUE]
              ELSE s1
    IN  IF KeyEnables(cfg.use_alldebrid, cfg.alldebrid_key)
        THEN [s2 EXCEPT !.alldebrid = TRUE, !.useAllDebrid = TRUE]
        ELSE s2

----------------------------------------------------------------------------
(* The timeout of a request *)

IdsTimeoutMs == 10000

\* The callers of fetch on the best-effort paths.
Callers == Providers \cup {"ids"}

\* The timeout option given to fetch, in milliseconds, 0 when fetch is
\* called without one: the three checkCache methods pass none, imdbToTmdb
\* and tmdbToImdb pass { timeout: 10000 }.
FetchTimeoutMs(c) ==
    CASE c = "realdebrid" -> 0
      [] c = "torbox" -> 0
      [] c = "alldebrid" -> 0
      [] c = "ids" -> IdsTimeoutMs

----------------------------------------------------------------------------
(* Actions: a direct call of one client's checkCache *)

NothingCalled ==
    /\ rd.pc = "idle" /\ tb.pc = "idle" /\ ad.pc = "idle"
    /\ agg.pc = "idle" /\ ids.pc = "idle" /\ op.pc = "idle"
    /\ config = NoConfig

CallRD ==
    /\ NothingCalled
    /\ \E hs \in RDInputs :
        /\ hashes' = hs
        /\ rd' = RDCall(hs, now)
    /\ UNCHANGED <<services, tb, ad, now, agg, ids, op, config>>

RDResponse ==
    /\ rd.pc = "fetch"
    /\ \E out \in Outcomes(IF agg.pc = "idle"
                            THEN RDBodies(RDBatch(hashes, rd.i))
                            ELSE RDBodiesNarrow(RDBatch(hashes, rd.i))) :
        rd' = RDHandle(rd, hashes, out, now)
    /\ UNCHANGED <<hashes, services, tb, ad, now, agg, ids, op, config>>

RDDelay ==
    /\ rd.pc = "delay"
    /\ now' = now + DelayMs
    /\ rd' = RDResume(rd, hashes, now')
    /\ UNCHANGED <<hashes, services, tb, ad, agg, ids, op, config>>

CallTB ==
    /\ NothingCalled
    /\ \E hs \in SmallInputs :
        /\ hashes' = hs
        /\ tb' = TBCall(hs, now)
    /\ UNCHANGED <<services, rd, ad, now, agg, ids, op, config>>

TBResponse ==
    /\ tb.pc = "fetch"
    /\ \E out \in Outcomes(IF agg.pc = "idle" THEN TBBodies(hashes)
                            ELSE TBBodiesNarrow(hashes)) :
        tb' = TBHandle(tb, hashes, out, now)
    /\ UNCHANGED <<hashes, services, rd, ad, now, agg, ids, op, config>>

CallAD ==
    /\ NothingCalled
    /\ \E hs \in SmallInputs :
        /\ hashes' = hs
        /\ ad' = ADCall(hs, now)
    /\ UNCHANGED <<services, rd, tb, now, agg, ids, op, config>>

ADResponse ==
    /\ ad.pc = "fetch"
    /\ \E out \in Outcomes(IF agg.pc = "idle" THEN ADBodies(hashes)
                            ELSE ADBodiesNarrow(hashes)) :
        ad' = ADHandle(ad, hashes, out, now)
    /\ UNCHANGED <<hashes, services, rd, tb, now, agg, ids, op, config>>

----------------------------------------------------------------------------
(* Actions: a call of checkAllDebridCaches *)

Client(p) ==
    CASE p = "realdebrid" -> rd
      [] p = "torbox" -> tb
      [] p = "alldebrid" -> ad

\* checkAllDebridCaches(hashes, services) up to await Promise.all(checks):
\* every enabled client's checkCache runs to its first await, in the order
\* Real-Debrid, Torbox, AllDebrid.
AggCall ==
    /\ NothingCalled
    /\ \E hs \in AggInputs, svc \in ServicesSet :
        /\ hashes' = hs
        /\ services' = svc
        /\ agg' = AggStart(svc)
        /\ rd' = IF "realdebrid" \in agg'.checks THEN RDCall(hs, now) ELSE rd
        /\ tb' = IF "torbox" \in agg'.checks THEN TBCall(hs, now) ELSE tb
        /\ ad' = IF "alldebrid" \in agg'.checks THEN ADCall(hs, now) ELSE ad
    /\ UNCHANGED <<now, ids, op, config>>

\* The .then callback of a check whose checkCache promise is fulfilled.
AggThen ==
    /\ agg.pc = "waiting"
    /\ \E p \in agg.checks :
        /\ agg.handled[p] = "none"
        /\ Client(p).pc = "resolved"
        /\ agg' = AggOnResolve(agg, p, Client(p).results)
    /\ UNCHANGED <<hashes, services, rd, tb, ad, now, ids, op, config>>

\* The .catch callback of a check whose checkCache promise is rejected.
AggCatch ==
    /\ agg.pc = "waiting"
    /\ \E p \in agg.checks :
        /\ agg.handled[p] = "none"
        /\ Client(p).pc = "rejected"
        /\ agg' = AggOnReject(agg, p)
    /\ UNCHANGED <<hashes, services, rd, tb, ad, now, ids, op, config>>

\* Promise.all(checks) settles and checkAllDebridCaches returns cacheResults.
AggJoin ==
    /\ agg.pc = "waiting"
    /\ AggJoinable(agg)
    /\ agg' = AggJoined(agg)
    /\ UNCHANGED <<hashes, services, rd, tb, ad, now, ids, op, config>>

----------------------------------------------------------------------------
(* Actions: a call of completeIds *)

CallCompleteIds ==
    /\ NothingCalled
    /\ \E imdbId \in ImdbIds, tmdbId \in TmdbIds, type \in Types :
        ids' = CompleteIds(imdbId, tmdbId, type)
    /\ UNCHANGED <<hashes, services, rd, tb, ad, now, agg, op, config>>

ForwardResponse ==
    /\ ids.pc = "forward"
    /\ \E out \in Outcomes(ForwardBodies) : ids' = IdsForwardDone(ids, out)
    /\ UNCHANGED <<hashes, services, rd, tb, ad, now, agg, op, config>>

ReverseResponse ==
    /\ ids.pc = "reverse"
    /\ \E out \in Outcomes(ReverseBodies) : ids' = IdsReverseDone(ids, out)
    /\ UNCHANGED <<hashes, services, rd, tb, ad, now, agg, op, config>>

\* A request of a caller is on the wire.
Pending(c) ==
    IF c = "ids" THEN ids.pc \in {"forward", "reverse"}
    ELSE Client(c).pc = "fetch"

\* The timeout given to fetch runs out before the remote has answered:
\* fetch rejects, which the caller handles as any other transport error.
FetchTimeout ==
    /\ \E c \in Callers :
        /\ Pending(c)
        /\ FetchTimeoutMs(c) > 0
        /\ now' = now + FetchTimeoutMs(c)
        /\ LET out == Outcome("fetch_throw", JsUndef)
           IN  /\ rd' = IF c = "realdebrid"
                         THEN RDHandle(rd, hashes, out, now') ELSE rd
               /\ tb' = IF c = "torbox"
                         THEN TBHandle(tb, hashes, out, now') ELSE tb
               /\ ad' = IF c = "alldebrid"
                         THEN ADHandle(ad, hashes, out, now') ELSE ad
               /\ ids' = IF c # "ids" THEN ids
                          ELSE IF ids.pc = "forward"
                              THEN IdsForwardDone(ids, out)
                          ELSE IdsReverseDone(ids, out)
    /\ UNCHANGED <<hashes, services, agg, op, config>>

----------------------------------------------------------------------------
(* Actions: an operation that changes the account *)

CallOp ==
    /\ NothingCalled
    /\ \E o \in MutationOps : op' = OpCall(o[1], o[2])
    /\ UNCHANGED <<hashes, services, rd, tb, ad, now, agg, ids, config>>

OpResponse ==
    /\ op.pc = "fetch"
    /\ \E ans \in OpAnswers : op' = OpHandle(op, ans)
    /\ UNCHANGED <<hashes, services, rd, tb, ad, now, agg, ids, config>>

----------------------------------------------------------------------------
(* Actions: a call of createDebridServices *)

CallCreateDebridServices ==
    /\ NothingCalled
    /\ \E cfg \in Configs :
        /\ config' = [k \in DOMAIN NoConfig |->
                        IF k = "called" THEN TRUE ELSE cfg[k]]
        /\ services' = CreateDebridServices(cfg)
    /\ UNCHANGED <<hashes, rd, tb, ad, now, agg, ids, op>>

----------------------------------------------------------------------------
Init ==
    /\ hashes = <<>>
    /\ services = [useRealDebrid |-> FALSE, realdebrid |-> FALSE,
                   useTorbox |-> FALSE, torbox |-> FALSE,
                   useAllDebrid |-> FALSE, alldebrid |-> FALSE]
    /\ rd = IdleClient
    /\ tb = IdleClient
    /\ ad = IdleClient
    /\ now = 0
    /\ agg = AggIdle
    /\ ids = IdsIdle
    /\ op = OpIdle
    /\ config = NoConfig

NextClient ==
    \/ CallRD \/ RDResponse \/ RDDelay
    \/ CallTB \/ TBResponse
    \/ CallAD \/ ADResponse

SpecClient == Init /\ [][NextClient]_vars

NextAgg ==
    \/ AggCall \/ AggThen \/ AggCatch \/ AggJoin
    \/ RDResponse \/ RDDelay \/ TBResponse \/ ADResponse

SpecAgg == Init /\ [][NextAgg]_vars

NextIds ==
    CallCompleteIds \/ ForwardResponse \/ ReverseResponse \/ FetchTimeout

SpecIds == Init /\ [][NextIds]_vars

NextOps == CallOp \/ OpResponse

SpecOps == Init /\ [][NextOps]_vars

NextFactory == CallCreateDebridServices

SpecFactory == Init /\ [][NextFactory]_vars

Next ==
    \/ CallRD \/ CallTB \/ CallAD
    \/ RDResponse \/ RDDelay \/ TBResponse \/ ADResponse
    \/ AggCall \/ AggThen \/ AggCatch \/ AggJoin
    \/ CallCompleteIds \/ ForwardResponse \/ ReverseResponse
    \/ FetchTimeout
    \/ CallOp \/ OpResponse
    \/ CallCreateDebridServices

Spec == Init /\ [][Next]_vars

----------------------------------------------------------------------------
(* Properties of the provider clients, checked under SpecClient *)

Settled(st) == st.pc \in {"resolved", "rejected"}

\* The non-empty inputs of the contract: sequences of hash strings.
HashInput == Len(hashes) > 0 /\ AllStrings(hashes)

\* The positions of a client's history that hold events of a type.
EventsAt(st, type) == {e \in 1..Len(st.log) : st.log[e].type = type}

\* The requests of a history, in the order issued.
Requests(st) ==
    LET F[e \in 0..Len(st.log)] ==
            IF e = 0 THEN <<>>
            ELSE IF st.log[e].type = "request" THEN Append(F[e - 1], st.log[e])
            ELSE F[e - 1]
    IN  F[Len(st.log)]

CeilDiv(n, d) == (n + d - 1) \div d

\* A response event reports a failed request: no 2xx status, or no response.
Failed(ev) ==
    /\ ev.type = "response"
    /\ ev.out.kind \in {"fetch_throw", "http_error", "http_error_nojson"}

CachedFalse(st, h) ==
    /\ toLowerCase(h) \in DOMAIN st.results
    /\ st.results[toLowerCase(h)].cached = JsBool(FALSE)

\* C1 (as claimed): for each client and every non-empty sequence of hashes,
\* the map checkCache returns has the lowercased form of every input hash as
\* a key, whatever the remote outcome was.
C1_EveryHashIsAKey ==
    \A st \in {rd, tb, ad} :
        (HashInput /\ st.pc = "resolved") =>
            LowerKeys(hashes) \subseteq DOMAIN st.results

\* C2 (as claimed): after a non-2xx response or a transport error checkCache
\* does not reject, and every hash of the failed request is reported with
\* cached = false in the map returned.
C2_FailedRequestAllUncached ==
    \A st \in {rd, tb, ad} :
        (HashInput /\ Settled(st)) =>
            /\ st.pc = "resolved"
            /\ \A e \in EventsAt(st, "response") :
                Failed(st.log[e]) =>
                    \A k \in 1..Len(st.log[e - 1].batch) :
                        CachedFalse(st, st.log[e - 1].batch[k])

\* The hashes requested again after position e of a history.
RequestedAfter(st, e) ==
    UNION {LowerKeys(st.log[f].batch) :
            f \in {g \in EventsAt(st, "request") : g > e}}

\* C2 (amended): after a non-2xx response or a transport error checkCache
\* does not reject, and every hash of the failed request that no later batch
\* of the same call carries again is reported with cached = false; Torbox
\* and AllDebrid issue one request, so this is every hash of their input.
C2_FailedRequestUncachedUnlessRequestedAgain ==
    \A st \in {rd, tb, ad} :
        HashInput =>
            /\ st.pc # "rejected"
            /\ \A e \in EventsAt(st, "response") :
                Failed(st.log[e]) =>
                    \A k \in 1..Len(st.log[e - 1].batch) :
                        \/ toLowerCase(st.log[e - 1].batch[k])
                                \in RequestedAfter(st, e)
                        \/ CachedFalse(st, st.log[e - 1].batch[k])
            /\ (st \in {tb, ad} /\ Settled(st)
                    /\ \E e \in EventsAt(st, "response") : Failed(st.log[e])) =>
                    \A k \in 1..Len(hashes) : CachedFalse(st, hashes[k])

\* C2 witness: a Real-Debrid call whose first batch failed and whose second
\* batch succeeded has returned, with a hash of the failed batch reported
\* not cached and a hash of the later batch reported cached.
C2_Witness ==
    /\ HashInput /\ rd.pc = "resolved"
    /\ Len(rd.log) >= 5
    /\ rd.log[2].out.kind = "http_error"
    /\ rd.log[5].type = "response" /\ rd.log[5].out.kind = "ok"
    /\ CachedFalse(rd, hashes[2])
    /\ \E k \in DOMAIN rd.results : rd.results[k].cached = JsBool(TRUE)

\* C5: RealDebrid.checkCache on n >= 1 hashes issues ceil(n/40) requests
\* whatever fails; request j carries the j-th consecutive slice of the input,
\* every request but the last exactly 40 hashes, none more than 40 (85 hashes
\* go out as 40, 40 and 5).
C5_BatchesAreConsecutiveSlices ==
    (HashInput /\ rd.pc # "idle") =>
        LET R == Requests(rd)
            n == Len(hashes)
        IN  /\ Len(R) <= CeilDiv(n, 40)
            /\ rd.pc = "resolved" => Len(R) = CeilDiv(n, 40)
            /\ \A j \in 1..Len(R) :
                /\ R[j].batch = SubSeq(hashes, 40 * (j - 1) + 1, Min(40 * j, n))
                /\ Len(R[j].batch) <= 40
                /\ j < CeilDiv(n, 40) => Len(R[j].batch) = 40
                /\ j = CeilDiv(n, 40) => Len(R[j].batch) = n - 40 * (j - 1)
            /\ (n = 85 /\ rd.pc = "resolved") =>
                    <<Len(R[1].batch), Len(R[2].batch), Len(R[3].batch)>>
                        = <<40, 40, 5>>

\* C5 witness: a call on 85 hashes has returned after three requests, one
\* of which failed.
C5_Witness ==
    /\ HashInput /\ Len(hashes) = 85 /\ rd.pc = "resolved"
    /\ Len(Requests(rd)) = 3
    /\ \E e \in EventsAt(rd, "response") : Failed(rd.log[e])

\* C6 (as claimed): within one RealDebrid.checkCache call every request
\* after the first is issued only after the previous request has settled and
\* the 500 ms pause has then elapsed, whatever that outcome was, and no pause
\* follows the last batch.
C6_PauseBetweenAllBatches ==
    HashInput =>
        /\ \A e \in EventsAt(rd, "request") :
            e > 1 =>
                /\ e > 3
                /\ rd.log[e - 1].type = "delay"
                /\ rd.log[e - 2].type = "response"
                /\ rd.log[e].at >= rd.log[e - 2].at + 500
        /\ rd.pc = "resolved" => rd.log[Len(rd.log)].type = "response"

\* The body of a 2xx response that the client read and used.
UsedBody(st, usable) ==
    /\ Len(st.log) = 2
    /\ st.log[2].out.kind = "ok"
    /\ ~Nullish(st.log[2].out.body)
    /\ usable

\* C7 (as claimed): on a successful response Torbox.checkCache reports a hash
\* cached exactly when its lowercased form is a key of the response's data,
\* whatever value is stored under the key.
C7_CachedIffKeyPresent ==
    (HashInput /\ tb.pc = "resolved"
        /\ UsedBody(tb, TBUsable(tb.log[2].out.body))) =>
        \A k \in 1..Len(hashes) :
            LET key == toLowerCase(hashes[k])
            IN  /\ key \in DOMAIN tb.results
                /\ tb.results[key].cached =
                    JsBool(key \in DOMAIN tb.log[2].out.body.v.data.v)

\* The magnets array of the response AllDebrid.checkCache used.
ADMagnetsUsed == ad.log[2].out.body.v.data.v.magnets.v

ADSuccess ==
    /\ HashInput /\ ad.pc = "resolved"
    /\ UsedBody(ad, ADUsable(ad.log[2].out.body))

\* C8 (as claimed): on a successful response the entry stored under
\* lowercase(hashes[i]) has cached = true exactly when response element i
\* has instant equal to true.
C8_ElementPairedByPosition ==
    ADSuccess =>
        \A i \in 1..Min(Len(ADMagnetsUsed), Len(hashes)) :
            LET key == toLowerCase(hashes[i])
            IN  /\ key \in DOMAIN ad.results
                /\ ad.results[key].cached =
                    JsBool(Prop(ADMagnetsUsed[i], "instant") = JsBool(TRUE))

\* The last answered position that holds the same hash, case aside.
LastPositionOf(i, answered) ==
    CHOOSE j \in i..answered :
        /\ toLowerCase(hashes[j]) = toLowerCase(hashes[i])
        /\ \A m \in (j + 1)..answered :
            toLowerCase(hashes[m]) # toLowerCase(hashes[i])

\* C8 (amended): on a successful response that carries only objects and no
\* more elements than there are input hashes, the entry stored under
\* lowercase(hashes[i]) has cached = true exactly when the element at the
\* last answered position holding that hash has instant equal to true; the
\* pairing is by position and no value inside an element enters into it.
C8_LastPositionDecides ==
    (ADSuccess /\ Len(ADMagnetsUsed) <= Len(hashes)
        /\ \A m \in 1..Len(ADMagnetsUsed) : ~Nullish(ADMagnetsUsed[m])) =>
        \A i \in 1..Len(ADMagnetsUsed) :
            LET key == toLowerCase(hashes[i])
                j == LastPositionOf(i, Len(ADMagnetsUsed))
            IN  /\ key \in DOMAIN ad.results
                /\ ad.results[key].cached =
                    JsBool(Prop(ADMagnetsUsed[j], "instant") = JsBool(TRUE))

\* C8 witness: two different hashes were answered by two elements, the first
\* with instant = true and naming the second hash in its own hash field, and
\* the first hash is the one reported cached.
C8_Witness ==
    /\ ADSuccess /\ Len(hashes) = 2 /\ Len(ADMagnetsUsed) = 2
    /\ toLowerCase(hashes[1]) # toLowerCase(hashes[2])
    /\ ~Nullish(ADMagnetsUsed[1]) /\ ~Nullish(ADMagnetsUsed[2])
    /\ Prop(ADMagnetsUsed[1], "instant") = JsBool(TRUE)
    /\ Prop(ADMagnetsUsed[2], "instant") = JsBool(FALSE)
    /\ Prop(ADMagnetsUsed[1], "hash") = toLowerCase(hashes[2])
    /\ ad.results[toLowerCase(hashes[1])].cached = JsBool(TRUE)
    /\ ad.results[toLowerCase(hashes[2])].cached = JsBool(FALSE)

\* C13 (as claimed): for each client and every non-empty input, every entry
\* of the map checkCache returns has a cached field that is a boolean, never
\* undefined, null or a value of another type, whatever the outcome was.
C13_CachedIsBoolean ==
    \A st \in {rd, tb, ad} :
        (HashInput /\ st.pc = "resolved") =>
            \A key \in DOMAIN st.results :
                st.results[key].cached.t = "boolean"

\* A batch response that Real-Debrid's success branch used: a 2xx status
\* and a JSON body that is not null.
RDSuccess(ev) ==
    ev.type = "response" /\ ev.out.kind = "ok" /\ ~Nullish(ev.out.body)

\* The entry of a response for a key has a variant array with an element.
HasVariants(info) ==
    Prop(info, "rd").t = "array" /\ Len(Prop(info, "rd").v) > 0

\* C17: on a successful batch response RealDebrid.checkCache reports a hash
\* with cached = true exactly when the response holds, under the lowercased
\* hash, an rd array with at least one element; with no entry, no rd array or
\* an empty one the hash is reported not cached (no truthy cached value), and
\* the variants reported are that array, or the empty sequence without one.
\* This is about the hashes no later batch of the call carries again.
C17_CachedIffNonEmptyVariants ==
    HashInput =>
        \A e \in EventsAt(rd, "response") :
            RDSuccess(rd.log[e]) =>
                \A key \in LowerKeys(rd.log[e - 1].batch)
                                \ RequestedAfter(rd, e) :
                    LET info == Lookup(rd.log[e].out.body, key)
                    IN  /\ key \in DOMAIN rd.results
                        /\ (rd.results[key].cached = JsBool(TRUE))
                                <=> HasVariants(info)
                        /\ ~HasVariants(info) =>
                                ~Truthy(rd.results[key].cached)
                        /\ rd.results[key].payload =
                                IF Prop(info, "rd").t = "array"
                                THEN Prop(info, "rd") ELSE JsArr(<<>>)

\* C17 witness: one response answered two hashes, the first with a variant
\* and the second with an empty variant array, and the call returned the
\* first cached with its variant and the second not cached.
C17_Witness ==
    /\ HashInput /\ rd.pc = "resolved" /\ Len(hashes) = 2
    /\ RDSuccess(rd.log[2])
    /\ LET k1 == toLowerCase(hashes[1])
           k2 == toLowerCase(hashes[2])
       IN  /\ k1 # k2
           /\ Lookup(rd.log[2].out.body, k1) = JsObj([rd |-> JsArr(<<"v1">>)])
           /\ Lookup(rd.log[2].out.body, k2) = JsObj([rd |-> JsArr(<<>>)])
           /\ rd.results[k1].cached = JsBool(TRUE)
           /\ rd.results[k1].payload = JsArr(<<"v1">>)
           /\ rd.results[k2].cached = JsBool(FALSE)
           /\ rd.results[k2].payload = JsArr(<<>>)

\* The entry a batch response dictates for a key of its batch.
Dictated(out, key) ==
    IF out.kind = "ok" /\ ~Nullish(out.body)
    THEN RDEntry(Lookup(out.body, key)) ELSE RDFailEntry

\* The requests of Real-Debrid's history that carry a key.
RequestsCarrying(key) ==
    {r \in EventsAt(rd, "request") : key \in LowerKeys(rd.log[r].batch)}

\* The last event of Real-Debrid's history is a failed response.
EndsInFailure == Len(rd.log) > 0 /\ Failed(rd.log[Len(rd.log)])

\* The keys whose entry a successful batch wrote and no batch between that
\* one and the last response of the history wrote again, with the response
\* that wrote them.
WrittenBefore(last) ==
    {<<e, key>> \in EventsAt(rd, "response") \X LowerKeys(hashes) :
        /\ e < last /\ RDSuccess(rd.log[e])
        /\ e - 1 \in RequestsCarrying(key)
        /\ \A r \in RequestsCarrying(key) : ~(e < r /\ r < last - 1)}

\* A failed batch does not end the call: unless it was the last one the next
\* batch goes out, at once after a transport error and after the pause
\* after a non-2xx response, and the call returns after ceil(n/40) requests.
LaterBatchesIssued ==
    /\ rd.pc # "rejected"
    /\ EndsInFailure =>
        \/ /\ rd.pc = "delay"
           /\ Len(Requests(rd)) < CeilDiv(Len(hashes), batchSize)
        \/ /\ rd.pc = "resolved"
           /\ Len(Requests(rd)) = CeilDiv(Len(hashes), batchSize)
    /\ rd.pc = "resolved" =>
            Len(Requests(rd)) = CeilDiv(Len(hashes), batchSize)

\* A hash that one batch alone carries ends with the entry that batch's
\* response dictates.
OwnBatchDecides ==
    rd.pc = "resolved" =>
        \A key \in LowerKeys(hashes) :
            \A r \in RequestsCarrying(key) :
                RequestsCarrying(key) = {r} =>
                    /\ key \in DOMAIN rd.results
                    /\ rd.results[key] = Dictated(rd.log[r + 1].out, key)

\* The last response handled, if it reports a failure.
LastFailure ==
    CHOOSE e \in EventsAt(rd, "response") :
        \A f \in EventsAt(rd, "response") : f <= e

HandledFailure ==
    /\ rd.pc \in {"fetch", "delay", "resolved"}
    /\ EventsAt(rd, "response") # {}
    /\ Failed(rd.log[LastFailure])

\* C18 (as claimed): a failing batch of RealDebrid.checkCache affects only its
\* own segment: every later batch is still issued, every hash that one batch
\* alone carries ends with what that batch's response dictates, and no entry
\* written by an earlier successful batch is changed by a later failure.
C18_FailureStaysInItsBatch ==
    HashInput =>
        /\ LaterBatchesIssued
        /\ OwnBatchDecides
        /\ HandledFailure =>
            \A w \in WrittenBefore(LastFailure) :
                rd.results[w[2]] = Dictated(rd.log[w[1]].out, w[2])

\* C18 (amended): as claimed, but an entry written by an earlier successful
\* batch is left unchanged by a later failure only if the failing batch does
\* not carry the same hash again; if it does, the entry becomes not cached.
C18_FailureStaysInItsBatchUnlessRepeated ==
    HashInput =>
        /\ LaterBatchesIssued
        /\ OwnBatchDecides
        /\ HandledFailure =>
            \A w \in WrittenBefore(LastFailure) :
                rd.results[w[2]] =
                    IF w[2] \in LowerKeys(rd.log[LastFailure - 1].batch)
                    THEN RDFailEntry
                    ELSE Dictated(rd.log[w[1]].out, w[2])

\* C18 witness: of three batches of distinct hashes the second failed and the
\* other two succeeded; the call returned a hash of the first and one of the
\* third batch cached and the hashes of the second not cached.
C18_Witness ==
    /\ HashInput /\ rd.pc = "resolved" /\ Len(hashes) = 2 * batchSize + 5
    /\ \A key \in LowerKeys(hashes) : Cardinality(RequestsCarrying(key)) = 1
    /\ Len(Requests(rd)) = 3
    /\ \E e1, e2, e3 \in EventsAt(rd, "response") :
        /\ e1 < e2 /\ e2 < e3
        /\ RDSuccess(rd.log[e1]) /\ Failed(rd.log[e2]) /\ RDSuccess(rd.log[e3])
        /\ \E key \in LowerKeys(rd.log[e1 - 1].batch) :
                rd.results[key].cached = JsBool(TRUE)
        /\ \A key \in LowerKeys(rd.log[e2 - 1].batch) :
                rd.results[key] = RDFailEntry
        /\ \E key \in LowerKeys(rd.log[e3 - 1].batch) :
                rd.results[key].cached = JsBool(TRUE)

\* C22: when a successful response of AllDebrid carries more elements than
\* there are input hashes, checkCache returns without error a map that holds
\* every input hash with cached = false, the hashes whose own positional
\* element has instant = true included.
C22_LongerResponseDegradesAll ==
    (HashInput /\ Settled(ad) /\ UsedBody(ad, ADUsable(ad.log[2].out.body))
        /\ Len(ADMagnetsUsed) > Len(hashes)) =>
        /\ ad.pc = "resolved"
        /\ DOMAIN ad.results = LowerKeys(hashes)
        /\ \A k \in 1..Len(hashes) :
            ad.results[toLowerCase(hashes[k])] = ADFailEntry

\* C22 witness: two hashes were answered by three elements, the first two
\* with instant = true, and the call returned both hashes not cached.
C22_Witness ==
    /\ HashInput /\ ad.pc = "resolved" /\ Len(hashes) = 2
    /\ UsedBody(ad, ADUsable(ad.log[2].out.body))
    /\ Len(ADMagnetsUsed) = 3
    /\ \A m \in 1..2 :
            /\ ~Nullish(ADMagnetsUsed[m])
            /\ Prop(ADMagnetsUsed[m], "instant") = JsBool(TRUE)
    /\ \A k \in 1..2 : CachedFalse(ad, hashes[k])

----------------------------------------------------------------------------
(* Properties of checkAllDebridCaches, checked under SpecAgg *)

\* C3: when a provider's checkCache promise rejects, checkAllDebridCaches
\* still returns without error; every other enabled provider's entry is the
\* map its own checkCache returned and the failing provider's entry is the
\* empty map.
C3_RejectionIsIsolated ==
    /\ agg.pc # "rejected"
    /\ agg.pc = "returned" =>
        \A p \in agg.checks :
            /\ Client(p).pc = "rejected" => agg.cacheResults[p] = EmptyMap
            /\ Client(p).pc = "resolved" =>
                    agg.cacheResults[p] = Client(p).results

\* C3 witness: the call has returned although Real-Debrid's check rejected,
\* with an empty Real-Debrid entry and AllDebrid's non-empty map in place.
C3_Witness ==
    /\ agg.pc = "returned"
    /\ rd.pc = "rejected" /\ ad.pc = "resolved"
    /\ ad.results # EmptyMap
    /\ agg.cacheResults["realdebrid"] = EmptyMap
    /\ agg.cacheResults["alldebrid"] = ad.results

\* C4: the returned object has exactly the entries realdebrid, torbox and
\* alldebrid for every combination of enabled and disabled providers; a
\* provider whose use flag is false or whose client is null contributes the
\* empty map and its checkCache is never invoked during the call.
C4_DisabledProvidersUntouched ==
    agg.pc # "idle" =>
        /\ DOMAIN agg.cacheResults = {"realdebrid", "torbox", "alldebrid"}
        /\ \A p \in Providers :
            (~UseFlag(services, p) \/ ~services[p]) =>
                /\ agg.cacheResults[p] = EmptyMap
                /\ Client(p) = IdleClient

\* C4 witness: a call with Torbox switched off by its flag (client present),
\* AllDebrid without a client (flag set) and Real-Debrid enabled has returned
\* with a non-empty Real-Debrid entry.
C4_Witness ==
    /\ agg.pc = "returned"
    /\ ~services.useTorbox /\ services.torbox
    /\ services.useAllDebrid /\ ~services.alldebrid
    /\ agg.checks = {"realdebrid"}
    /\ agg.cacheResults["realdebrid"] # EmptyMap
    /\ tb = IdleClient /\ ad = IdleClient

\* C19: checkAllDebridCaches returns only after every check it started has
\* settled: when it returns no started checkCache is pending, each check's
\* callback has run, and the entry of every provider whose check resolved
\* holds that check's result.
C19_ReturnsAfterAllSettled ==
    agg.pc \in {"returned", "rejected"} =>
        \A p \in agg.checks :
            /\ Settled(Client(p))
            /\ agg.handled[p] # "none"
            /\ Client(p).pc = "resolved" =>
                /\ agg.handled[p] = "then"
                /\ agg.cacheResults[p] = Client(p).results

\* C19 witness: the call returned after Real-Debrid, the slowest of three
\* started checks, had gone through two batches and the pause between them.
C19_Witness ==
    /\ agg.pc = "returned" /\ agg.checks = Providers
    /\ \A p \in Providers : Client(p).pc = "resolved"
    /\ Len(Requests(rd)) = 2 /\ EventsAt(rd, "delay") # {}
    /\ \A p \in Providers : agg.cacheResults[p] = Client(p).results
    /\ agg.cacheResults["realdebrid"] # EmptyMap

\* Real-Debrid's checkCache run on its own over the outcomes of a history.
RECURSIVE ReplayRD(_, _, _)
ReplayRD(st, log, e) ==
    IF e > Len(log) THEN st
    ELSE IF log[e].type = "response"
        THEN ReplayRD(RDHandle(st, hashes, log[e].out, 0), log, e + 1)
    ELSE IF log[e].type = "delay"
        THEN ReplayRD(RDResume(st, hashes, 0), log, e + 1)
    ELSE ReplayRD(st, log, e + 1)

\* The check of a provider run alone on the outcomes its requests had.
Alone(p) ==
    CASE p = "realdebrid" -> ReplayRD(RDCall(hashes, 0), rd.log, 1)
      [] p = "torbox" ->
            IF Len(tb.log) < 2 THEN TBCall(hashes, 0)
            ELSE TBHandle(TBCall(hashes, 0), hashes, tb.log[2].out, 0)
      [] p = "alldebrid" ->
            IF Len(ad.log) < 2 THEN ADCall(hashes, 0)
            ELSE ADHandle(ADCall(hashes, 0), hashes, ad.log[2].out, 0)

\* The time of the first response any started check has handled.
FirstResponseAt ==
    LET times == UNION {{Client(p).log[e].at :
                            e \in EventsAt(Client(p), "response")} :
                        p \in agg.checks}
    IN  IF times = {} THEN now
        ELSE CHOOSE t \in times : \A u \in times : t <= u

\* C20: checkAllDebridCaches starts the check of every enabled provider
\* without waiting on another: from the call on every enabled provider has
\* its first request on the wire, issued no later than any response of any
\* provider is handled, whatever the other providers' requests do; and in
\* whatever order the responses are handled, each entry returned is what the
\* provider's check yields on its own outcomes alone.
C20_ChecksStartTogether ==
    agg.pc # "idle" =>
        /\ agg.checks = {p \in Providers : UseFlag(services, p) /\ services[p]}
        /\ Len(hashes) > 0 =>
            \A p \in agg.checks :
                /\ Len(Client(p).log) >= 1
                /\ Client(p).log[1].type = "request"
                /\ Client(p).log[1].at <= FirstResponseAt
        /\ agg.pc = "returned" =>
            \A p \in agg.checks :
                agg.cacheResults[p] =
                    IF Alone(p).pc = "resolved" THEN Alone(p).results
                    ELSE EmptyMap

\* C20 witness: with three checks started at time 0, AllDebrid's response was
\* handled first, Real-Debrid's first response next, and Torbox's only after
\* Real-Debrid's pause; the call returned the three maps.
C20_Witness ==
    /\ agg.pc = "returned" /\ agg.checks = Providers
    /\ \A p \in Providers : Len(Client(p).log) >= 2
    /\ \A p \in Providers :
            /\ Client(p).log[1].type = "request" /\ Client(p).log[1].at = 0
            /\ agg.cacheResults[p] = Client(p).results
            /\ agg.cacheResults[p] # EmptyMap
    /\ ad.log[2].at = 0
    /\ tb.log[2].at = DelayMs
    /\ Len(Requests(rd)) = 2

----------------------------------------------------------------------------
(* Properties of completeIds, checked under SpecIds *)

\* An identifier argument is present when completeIds takes it as given:
\* null, undefined, the empty string and 0 count as absent.
Present(x) == Truthy(x)

\* C9: completeIds called with both ids present performs no remote call and
\* returns the pair unchanged, for every kind, a missing kind included.
C9_BothPresentPassThrough ==
    (ids.pc # "idle" /\ Present(ids.imdbId) /\ Present(ids.tmdbId)) =>
        /\ ids.pc = "returned"
        /\ ids.calls = <<>>
        /\ ids.result = [imdbId |-> ids.imdbId, tmdbId |-> ids.tmdbId]

\* C9 witness: a call with both ids and no kind has returned.
C9_Witness ==
    /\ ids.pc = "returned" /\ ids.type = JsUndef
    /\ ids.imdbId = JsStr(<<"t", "t", "0111161">>) /\ ids.tmdbId = JsNum(278)
    /\ ids.result = [imdbId |-> ids.imdbId, tmdbId |-> ids.tmdbId]

\* The first element of a result list of the response, if it has one.
HasMatch(body, list) == NonEmptyList(Prop(body, list))

FirstMatch(body, list) == Prop(body, list).v[1]

\* C10: completeIds called with only idA present returns idA unchanged; from
\* the forward lookup response idB is the id of the first movie match, else
\* the id of the first series match, else the parent show id of the first
\* episode match, else null, returned as a normal result.
C10_ForwardLookupOrder ==
    (ids.pc = "returned" /\ Present(ids.imdbId) /\ ~Present(ids.tmdbId)
        /\ ids.out.kind = "ok" /\ ~Nullish(ids.out.body)) =>
        LET body == ids.out.body
        IN  /\ ids.result.imdbId = ids.imdbId
            /\ Len(ids.calls) = 1 /\ ids.calls[1].kind = "find"
            /\ ids.calls[1].id = ids.imdbId
            /\ HasMatch(body, "movie_results") =>
                ids.result.tmdbId = FirstMatch(body, "movie_results").v.id
            /\ (~HasMatch(body, "movie_results")
                    /\ HasMatch(body, "tv_results")) =>
                ids.result.tmdbId = FirstMatch(body, "tv_results").v.id
            /\ (~HasMatch(body, "movie_results")
                    /\ ~HasMatch(body, "tv_results")
                    /\ HasMatch(body, "tv_episode_results")) =>
                ids.result.tmdbId =
                    FirstMatch(body, "tv_episode_results").v.show_id
            /\ (~HasMatch(body, "movie_results")
                    /\ ~HasMatch(body, "tv_results")
                    /\ ~HasMatch(body, "tv_episode_results")) =>
                ids.result.tmdbId = JsNull

\* C10 witness: a lookup by IMDb id alone was answered with no movie, no
\* series and two episode matches, and returned the first episode's show.
C10_Witness ==
    /\ ids.pc = "returned" /\ Present(ids.imdbId) /\ ~Present(ids.tmdbId)
    /\ ids.out.kind = "ok" /\ ~Nullish(ids.out.body)
    /\ ~HasMatch(ids.out.body, "movie_results")
    /\ ~HasMatch(ids.out.body, "tv_results")
    /\ HasMatch(ids.out.body, "tv_episode_results")
    /\ Len(Prop(ids.out.body, "tv_episode_results").v) = 2
    /\ ids.result = [imdbId |-> ids.imdbId, tmdbId |-> JsNum(1396)]

\* The external identifier field of a reverse lookup response, if it has one.
ExternalId(body) ==
    IF Truthy(Prop(body, "external_ids"))
    THEN Prop(Prop(body, "external_ids"), "imdb_id") ELSE JsUndef

\* C11: completeIds called with only idB present and a kind performs one
\* reverse lookup, by idB, whose media-type token is 'tv' when the kind is
\* 'series' and 'movie' for every other kind; it returns idB unchanged, and
\* from the response idA is the external identifier field, or null when the
\* response holds none.
C11_ReverseLookupByKind ==
    (ids.pc # "idle" /\ ~Present(ids.imdbId) /\ Present(ids.tmdbId)
        /\ Truthy(ids.type)) =>
        /\ ids.calls =
            <<[kind |-> "details", id |-> ids.tmdbId,
               mediaType |-> IF ids.type = JsStr(<<"series">>)
                             THEN "tv" ELSE "movie"]>>
        /\ ids.pc \in {"reverse", "returned"}
        /\ ids.pc = "returned" => ids.result.tmdbId = ids.tmdbId
        /\ (ids.pc = "returned" /\ ids.out.kind = "ok"
                /\ ~Nullish(ids.out.body)) =>
            ids.result.imdbId =
                IF Present(ExternalId(ids.out.body))
                THEN ExternalId(ids.out.body) ELSE JsNull

\* C11 witness: a lookup by idB = 1396 and kind 'series' went out with the
\* token 'tv', was answered with the external id tt0903747 and returned the
\* pair of the two.
C11_Witness ==
    /\ ids.pc = "returned"
    /\ ~Present(ids.imdbId) /\ ids.tmdbId = JsNum(1396)
    /\ ids.type = JsStr(<<"series">>)
    /\ Len(ids.calls) = 1 /\ ids.calls[1].mediaType = "tv"
    /\ ids.out.kind = "ok"
    /\ ids.result = [imdbId |-> JsStr(<<"t", "t", "0903747">>),
                     tmdbId |-> JsNum(1396)]

\* The arguments are of the documented types: idA a string or absent.
IdsTyped == IsString(ids.imdbId) \/ Nullish(ids.imdbId)

\* The request of the call in progress did not bring a 2xx response.
IdsLookupFailed ==
    ids.out.kind \in {"fetch_throw", "http_error", "http_error_nojson"}

\* What a lookup that finds no match leaves of the arguments: the supplied
\* member unchanged, the missing member unresolved.
IdsNoMatchResult ==
    [imdbId |-> IF Present(ids.imdbId) THEN ids.imdbId ELSE JsNull,
     tmdbId |-> IF Present(ids.tmdbId) THEN ids.tmdbId ELSE JsNull]

\* C12: completeIds never raises to its caller, for every combination of
\* present and absent idA, idB and kind and every lookup outcome; once the
\* lookup has settled it has returned a pair, and after a transport or HTTP
\* failure the pair is the one a lookup without a match yields.
C12_NeverRaisesFailureIsNoMatch ==
    (ids.pc # "idle" /\ IdsTyped) =>
        /\ ids.pc \in {"forward", "reverse", "returned"}
        /\ ids.pc = "returned" =>
            /\ DOMAIN ids.result = {"imdbId", "tmdbId"}
            /\ Len(ids.calls) = 0 => ids.result = IdsNoMatchResult
            /\ IdsLookupFailed => ids.result = IdsNoMatchResult
            /\ (ids.out.kind = "ok" /\ ~Nullish(ids.out.body)
                    /\ ids.calls[1].kind = "find"
                    /\ \A list \in {"movie_results", "tv_results",
                                     "tv_episode_results"} :
                            ~HasMatch(ids.out.body, list)) =>
                    ids.result = IdsNoMatchResult
            /\ (ids.out.kind = "ok" /\ ~Nullish(ids.out.body)
                    /\ ids.calls[1].kind = "details"
                    /\ ~Present(ExternalId(ids.out.body))) =>
                    ids.result = IdsNoMatchResult

\* C12 witness: a reverse lookup whose request threw a transport error has
\* returned idB with idA unresolved.
C12_Witness ==
    /\ ids.pc = "returned" /\ IdsTyped
    /\ Len(ids.calls) = 1 /\ ids.calls[1].kind = "details"
    /\ ids.out.kind = "fetch_throw"
    /\ ids.result = [imdbId |-> JsNull, tmdbId |-> JsNum(278)]

\* C23: completeIds called without idB and with an idA that does not start
\* with "tt" issues no request and returns idA unchanged with idB null;
\* called with idB alone and no kind it issues no request and returns idA
\* null.
C23_InvalidArgumentsNoRequest ==
    /\ (ids.pc # "idle" /\ IdsTyped /\ Present(ids.imdbId)
            /\ ~Present(ids.tmdbId)
            /\ ~(Len(ids.imdbId.v) >= 2
                    /\ SubSeq(ids.imdbId.v, 1, 2) = <<"t", "t">>)) =>
        /\ ids.pc = "returned"
        /\ ids.calls = <<>>
        /\ ids.result = [imdbId |-> ids.imdbId, tmdbId |-> JsNull]
    /\ (ids.pc # "idle" /\ ~Present(ids.imdbId) /\ Present(ids.tmdbId)
            /\ ~Truthy(ids.type)) =>
        /\ ids.pc = "returned"
        /\ ids.calls = <<>>
        /\ ids.result = [imdbId |-> JsNull, tmdbId |-> ids.tmdbId]

\* C23 witness: a call with the idA nm0000151 and no idB has returned the
\* idA with a null idB and has sent nothing.
C23_Witness ==
    /\ ids.pc = "returned"
    /\ ids.imdbId = JsStr(<<"n", "m", "0000151">>) /\ ~Present(ids.tmdbId)
    /\ ids.calls = <<>>
    /\ ids.result = [imdbId |-> ids.imdbId, tmdbId |-> JsNull]

----------------------------------------------------------------------------
(* Properties of the operations that change the account, under SpecOps *)

\* The remote answered the operation with a failure status.
AnsweredWithFailure ==
    /\ op.pc \in {"returned", "thrown"}
    /\ op.answer.kind = "answer"
    /\ ~ResponseOk(op.answer.status)

\* C14 (as claimed): addMagnet, selectFiles, unrestrictLink and deleteTorrent
\* throw whenever the remote answers with a failure status; none of them
\* returns normally then.
C14_FailureStatusThrows ==
    AnsweredWithFailure => op.pc = "thrown"

----------------------------------------------------------------------------
(* Properties of createDebridServices, checked under SpecFactory *)

\* The flag and the credential of a provider in the configuration.
ConfigFlag(p) ==
    CASE p = "realdebrid" -> config.use_rd
      [] p = "torbox" -> config.use_torbox
      [] p = "alldebrid" -> config.use_alldebrid

ConfigKey(p) ==
    CASE p = "realdebrid" -> config.rd_key
      [] p = "torbox" -> config.torbox_key
      [] p = "alldebrid" -> config.alldebrid_key

KeyLength(p) == IF IsString(ConfigKey(p)) THEN Len(ConfigKey(p).v) ELSE 0

\* C15: createDebridServices enables a provider exactly when its flag is true
\* and its credential is longer than 5 characters, each provider on its own
\* flag and credential alone; in the object returned a provider's use flag is
\* true exactly when its client is not null.
C15_EnabledIffFlagAndLongKey ==
    config.called =>
        \A p \in Providers :
            /\ UseFlag(services, p) =
                    (ConfigFlag(p) = JsBool(TRUE) /\ KeyLength(p) > 5)
            /\ UseFlag(services, p) = services[p]

\* C15 witness: with all three flags true, Real-Debrid has a key of exactly 5
\* characters and stays disabled, Torbox has one of 6 and is enabled, and
\* AllDebrid has no key and stays disabled.
C15_Witness ==
    /\ config.called
    /\ \A p \in Providers : ConfigFlag(p) = JsBool(TRUE)
    /\ KeyLength("realdebrid") = 5 /\ KeyLength("torbox") = 6
    /\ ConfigKey("alldebrid") = JsUndef
    /\ ~services.useRealDebrid /\ ~services.realdebrid
    /\ services.useTorbox /\ services.torbox
    /\ ~services.useAllDebrid /\ ~services.alldebrid

----------------------------------------------------------------------------
(* Properties of all best-effort calls, checked under Spec *)

\* C21: no best-effort operation sends a request again: in one call Torbox
\* and AllDebrid issue one request, Real-Debrid one request per batch (the
\* j-th request carries the j-th slice, and a call that returns has issued
\* ceil(n/40) of them), and completeIds at most one lookup, whether the
\* requests succeed or fail.
C21_NoRequestIsRetried ==
    /\ \A p \in {"torbox", "alldebrid"} :
        /\ Len(Requests(Client(p))) <= 1
        /\ (Settled(Client(p)) /\ Len(hashes) > 0) =>
                Len(Requests(Client(p))) = 1
    /\ LET R == Requests(rd)
       IN  /\ \A j \in 1..Len(R) :
                /\ 40 * (j - 1) < Len(hashes)
                /\ R[j].batch =
                    SubSeq(hashes, 40 * (j - 1) + 1, Min(40 * j, Len(hashes)))
           /\ rd.pc = "resolved" => Len(R) = CeilDiv(Len(hashes), 40)
    /\ Len(ids.calls) <= 1
    /\ (ids.pc = "returned" /\ ids.out.kind # "none") => Len(ids.calls) = 1

\* C21 witness: the only request of a Torbox call failed and the call has
\* returned without a second one.
C21_Witness ==
    /\ HashInput /\ tb.pc = "resolved"
    /\ Len(tb.log) = 2 /\ Failed(tb.log[2])
    /\ Len(Requests(tb)) = 1
    /\ \A k \in 1..Len(hashes) : CachedFalse(tb, hashes[k])

----------------------------------------------------------------------------
(* Properties of the timeouts, checked under Spec *)

\* C16 (as claimed): every request the best-effort paths have on the wire
\* (a cache check of a client, called directly or by checkAllDebridCaches,
\* and a lookup of completeIds) was given a timeout of its own, so that the
\* call ends without an answer of the remote.
C16_EveryRequestHasTimeout ==
    \A c \in Callers : Pending(c) => FetchTimeoutMs(c) > 0

====
